---- MODULE Spec2Model ----
(***************************************************************************)
(* Model of bank_account.py: Transaction, BankAccount, SavingsAccount,     *)
(* CheckingAccount and the menu loop of main().                            *)
(*                                                                         *)
(* Numbers.  Python floats are modelled as fixed-point integers: a money   *)
(* quantity is a whole number of the smallest unit, an interest rate is a  *)
(* whole number of 1/RateDen (0.02 is 2).  Addition, subtraction and       *)
(* comparison are exact; the product balance * interest_rate is rounded to *)
(* the nearest representable quantity (ties to even), as the float product *)
(* is.  NaN and the infinities are not modelled.                           *)
(*                                                                         *)
(* Two specifications share the state:                                     *)
(*   Spec      the classes driven directly by a caller that catches the    *)
(*             ValueError a method raises (constructors take any           *)
(*             arguments);                                                 *)
(*   SpecMain  the menu loop of main(), which catches nothing.             *)
(***************************************************************************)
EXTENDS Integers, Sequences, FiniteSets, TLC

VARIABLES
    accounts,   \* main(): accounts = {} (owner -> account object); in Spec, the objects the caller holds
    clock,      \* the wall clock datetime.now() reads
    pc,         \* position of main(): "menu", "crashed" (uncaught exception), "exited"
    last,       \* the last call: what was called, what it raised, returned and printed
    succeeded,  \* per owner: number of mutating calls that returned normally since construction
    initial,    \* per owner: the balance the account was constructed with
    displaced   \* what the last call's assignment accounts[owner] = account replaced

vars == <<accounts, clock, pc, last, succeeded, initial, displaced>>

(***************************************************************************)
(* Bounds and input sets                                                   *)
(***************************************************************************)
MaxHist == 2                     \* Transaction records held in memory, all accounts together

Owners == {"Alice", "Bob"}       \* owner names typed at the menu
Objects == {"Alice"}             \* Spec: the account object the caller drives
Times == {0, 1}                  \* readings of the wall clock
Amounts == {-5, 0, 50, 200, 400}
InitBalances == {-50, 0, 100}
MenuBalances == {0, 100}         \* SpecMain: initial balances typed at the menu
MenuAmounts == {-5, 50}          \* SpecMain: amounts typed at the menu

RateDen == 100                   \* an interest rate is a whole number of 1/RateDen
DefaultInterestRate == 2         \* interest_rate: float = 0.02
DefaultOverdraftLimit == -500    \* overdraft_limit: float = -500.0

Rates == {-50, 0, DefaultInterestRate, 50}
Limits == {DefaultOverdraftLimit, -100, 0}

(***************************************************************************)
(* Exceptions (ValueError messages) and the error kinds they stand for     *)
(***************************************************************************)
NoError == "None"
ErrDepositAmount == "Deposit amount must be positive."
ErrWithdrawalAmount == "Withdrawal amount must be positive."
ErrInsufficientFunds == "Insufficient funds."
ErrOverdraft == "Overdraft limit reached."
ErrFloat == "could not convert string to float"

InvalidAmount == {ErrDepositAmount, ErrWithdrawalAmount}
InsufficientFunds == {ErrInsufficientFunds}
OverdraftExceeded == {ErrOverdraft}

(***************************************************************************)
(* Float product, rounded to the nearest representable quantity            *)
(***************************************************************************)
RoundDiv(n, d) ==
    LET q == n \div d
        r == n % d
    IN  IF 2 * r < d THEN q
        ELSE IF 2 * r > d THEN q + 1
        ELSE IF q % 2 = 0 THEN q ELSE q + 1

Mul(balance, rate) == RoundDiv(balance * rate, RateDen)

(***************************************************************************)
(* Transaction                                                             *)
(***************************************************************************)
Transaction(amount, transaction_type, now) ==
    [amount |-> amount, transaction_type |-> transaction_type, date |-> now]

(***************************************************************************)
(* Results of a method call: the object after the call, the exception      *)
(* raised (NoError when it returns), the value returned, the lines printed *)
(***************************************************************************)
Line(text, args) == [text |-> text, args |-> args]

Return(self, ret, out) == [self |-> self, raised |-> NoError, ret |-> ret, out |-> out]

Raise(self, err, out) == [self |-> self, raised |-> err, ret |-> <<>>, out |-> out]

(***************************************************************************)
(* BankAccount                                                             *)
(***************************************************************************)
NoAccount == [kind |-> "None"]

BankAccount_init(owner, balance) ==
    [owner |-> owner, balance |-> balance, transactions |-> <<>>]

get_balance(self) == Return(self, <<self.balance>>, <<>>)

\* Mutant: the record is inserted at the front of the list.
add_transaction_Prepend(self, transaction) ==
    [self EXCEPT !.transactions = <<transaction>> \o @]

add_transaction(self, transaction) ==
    [self EXCEPT !.transactions = Append(@, transaction)]

\* Mutant: the records are popped off the list as they are printed.
get_transaction_history_Drains(self) ==
    Return([self EXCEPT !.transactions = <<>>], <<>>,
           (IF self.transactions = <<>> THEN <<Line("No transactions found.", <<>>)>> ELSE <<>>)
           \o [i \in 1..Len(self.transactions) |->
                  Line(self.transactions[i].transaction_type,
                       <<self.transactions[i].date, self.transactions[i].amount>>)])

get_transaction_history(self) ==
    Return(self, <<>>,
           (IF self.transactions = <<>> THEN <<Line("No transactions found.", <<>>)>> ELSE <<>>)
           \o [i \in 1..Len(self.transactions) |->
                  Line(self.transactions[i].transaction_type,
                       <<self.transactions[i].date, self.transactions[i].amount>>)])

(***************************************************************************)
(* SavingsAccount                                                          *)
(***************************************************************************)
SavingsAccount_init(owner, balance, interest_rate) ==
    [kind |-> "SavingsAccount", interest_rate |-> interest_rate]
        @@ BankAccount_init(owner, balance)

\* Mutant: the sign check is < instead of <=.
SavingsAccount_deposit_AllowsZero(self, amount, now) ==
    IF amount < 0 THEN Raise(self, ErrDepositAmount, <<>>)
    ELSE LET s1 == [self EXCEPT !.balance = @ + amount]
             s2 == add_transaction(s1, Transaction(amount, "Deposit", now))
         IN  Return(s2, <<>>, <<Line("Deposited into Savings Account", <<amount, s2.balance>>)>>)

SavingsAccount_deposit(self, amount, now) ==
    IF amount <= 0 THEN Raise(self, ErrDepositAmount, <<>>)
    ELSE LET s1 == [self EXCEPT !.balance = @ + amount]
             s2 == add_transaction(s1, Transaction(amount, "Deposit", now))
         IN  Return(s2, <<>>, <<Line("Deposited into Savings Account", <<amount, s2.balance>>)>>)

\* Mutant: the sign check is missing.
SavingsAccount_withdraw_NoSignCheck(self, amount, now) ==
    IF amount > self.balance THEN Raise(self, ErrInsufficientFunds, <<>>)
    ELSE LET s1 == [self EXCEPT !.balance = @ - amount]
             s2 == add_transaction(s1, Transaction(amount, "Withdrawal", now))
         IN  Return(s2, <<>>, <<Line("Withdrew from Savings Account", <<amount, s2.balance>>)>>)

\* Mutant: the floor check is >= instead of >.
SavingsAccount_withdraw_OffByOne(self, amount, now) ==
    IF amount <= 0 THEN Raise(self, ErrWithdrawalAmount, <<>>)
    ELSE IF amount >= self.balance THEN Raise(self, ErrInsufficientFunds, <<>>)
    ELSE LET s1 == [self EXCEPT !.balance = @ - amount]
             s2 == add_transaction(s1, Transaction(amount, "Withdrawal", now))
         IN  Return(s2, <<>>, <<Line("Withdrew from Savings Account", <<amount, s2.balance>>)>>)

\* Mutant: the record is appended but the balance is not decreased.
SavingsAccount_withdraw_NoDebit(self, amount, now) ==
    IF amount <= 0 THEN Raise(self, ErrWithdrawalAmount, <<>>)
    ELSE IF amount > self.balance THEN Raise(self, ErrInsufficientFunds, <<>>)
    ELSE LET s2 == add_transaction(self, Transaction(amount, "Withdrawal", now))
         IN  Return(s2, <<>>, <<Line("Withdrew from Savings Account", <<amount, s2.balance>>)>>)

SavingsAccount_withdraw(self, amount, now) ==
    IF amount <= 0 THEN Raise(self, ErrWithdrawalAmount, <<>>)
    ELSE IF amount > self.balance THEN Raise(self, ErrInsufficientFunds, <<>>)
    ELSE LET s1 == [self EXCEPT !.balance = @ - amount]
             s2 == add_transaction(s1, Transaction(amount, "Withdrawal", now))
         IN  Return(s2, <<>>, <<Line("Withdrew from Savings Account", <<amount, s2.balance>>)>>)

\* Mutant: the interest is credited directly, without deposit's validation.
SavingsAccount_apply_interest_Unchecked(self, now) ==
    LET interest == Mul(self.balance, self.interest_rate)
        s1 == [self EXCEPT !.balance = @ + interest]
        s2 == add_transaction(s1, Transaction(interest, "Deposit", now))
    IN  Return(s2, <<>>, <<Line("Applied interest", <<interest, s2.balance>>)>>)

\* Mutant: the interest is added to the balance and no record is written.
SavingsAccount_apply_interest_Unrecorded(self, now) ==
    LET interest == Mul(self.balance, self.interest_rate)
    IN  IF interest <= 0 THEN Raise(self, ErrDepositAmount, <<>>)
        ELSE LET s1 == [self EXCEPT !.balance = @ + interest]
             IN  Return(s1, <<>>, <<Line("Applied interest", <<interest, s1.balance>>)>>)

SavingsAccount_apply_interest(self, now) ==
    LET interest == Mul(self.balance, self.interest_rate)
        d == SavingsAccount_deposit(self, interest, now)
    IN  IF d.raised # NoError THEN d
        ELSE Return(d.self, <<>>,
                    d.out \o <<Line("Applied interest", <<interest, d.self.balance>>)>>)

(***************************************************************************)
(* CheckingAccount                                                         *)
(***************************************************************************)
CheckingAccount_init(owner, balance, overdraft_limit) ==
    [kind |-> "CheckingAccount", overdraft_limit |-> overdraft_limit]
        @@ BankAccount_init(owner, balance)

\* Mutant: the record is written with the other transaction type.
CheckingAccount_deposit_WrongType(self, amount, now) ==
    IF amount <= 0 THEN Raise(self, ErrDepositAmount, <<>>)
    ELSE LET s1 == [self EXCEPT !.balance = @ + amount]
             s2 == add_transaction(s1, Transaction(amount, "Withdrawal", now))
         IN  Return(s2, <<>>, <<Line("Deposited into Checking Account", <<amount, s2.balance>>)>>)

CheckingAccount_deposit(self, amount, now) ==
    IF amount <= 0 THEN Raise(self, ErrDepositAmount, <<>>)
    ELSE LET s1 == [self EXCEPT !.balance = @ + amount]
             s2 == add_transaction(s1, Transaction(amount, "Deposit", now))
         IN  Return(s2, <<>>, <<Line("Deposited into Checking Account", <<amount, s2.balance>>)>>)

\* Mutant: the floor check is <= instead of <.
CheckingAccount_withdraw_OffByOne(self, amount, now) ==
    IF amount <= 0 THEN Raise(self, ErrWithdrawalAmount, <<>>)
    ELSE IF self.balance - amount <= self.overdraft_limit THEN Raise(self, ErrOverdraft, <<>>)
    ELSE LET s1 == [self EXCEPT !.balance = @ - amount]
             s2 == add_transaction(s1, Transaction(amount, "Withdrawal", now))
         IN  Return(s2, <<>>, <<Line("Withdrew from Checking Account", <<amount, s2.balance>>)>>)

\* Mutant: the balance is decreased before the floor is checked.
CheckingAccount_withdraw_MutateFirst(self, amount, now) ==
    IF amount <= 0 THEN Raise(self, ErrWithdrawalAmount, <<>>)
    ELSE LET s1 == [self EXCEPT !.balance = @ - amount]
             s2 == add_transaction(s1, Transaction(amount, "Withdrawal", now))
         IN  IF s1.balance < self.overdraft_limit THEN Raise(s1, ErrOverdraft, <<>>)
             ELSE Return(s2, <<>>, <<Line("Withdrew from Checking Account", <<amount, s2.balance>>)>>)

\* Mutant: the amount is also taken off the overdraft limit.
CheckingAccount_withdraw_DebitsLimit(self, amount, now) ==
    IF amount <= 0 THEN Raise(self, ErrWithdrawalAmount, <<>>)
    ELSE IF self.balance - amount < self.overdraft_limit THEN Raise(self, ErrOverdraft, <<>>)
    ELSE LET s1 == [self EXCEPT !.balance = @ - amount, !.overdraft_limit = @ - amount]
             s2 == add_transaction(s1, Transaction(amount, "Withdrawal", now))
         IN  Return(s2, <<>>, <<Line("Withdrew from Checking Account", <<amount, s2.balance>>)>>)

CheckingAccount_withdraw(self, amount, now) ==
    IF amount <= 0 THEN Raise(self, ErrWithdrawalAmount, <<>>)
    ELSE IF self.balance - amount < self.overdraft_limit THEN Raise(self, ErrOverdraft, <<>>)
    ELSE LET s1 == [self EXCEPT !.balance = @ - amount]
             s2 == add_transaction(s1, Transaction(amount, "Withdrawal", now))
         IN  Return(s2, <<>>, <<Line("Withdrew from Checking Account", <<amount, s2.balance>>)>>)

(***************************************************************************)
(* Method dispatch on the object's class                                   *)
(***************************************************************************)
IsSavings(a) == a.kind = "SavingsAccount"

IsChecking(a) == a.kind = "CheckingAccount"

deposit(self, amount, now) ==
    IF IsSavings(self) THEN SavingsAccount_deposit(self, amount, now)
    ELSE CheckingAccount_deposit(self, amount, now)

withdraw(self, amount, now) ==
    IF IsSavings(self) THEN SavingsAccount_withdraw(self, amount, now)
    ELSE CheckingAccount_withdraw(self, amount, now)

(***************************************************************************)
(* State                                                                   *)
(***************************************************************************)
\* choice: the menu option typed ("" when the method is called directly);
\* op: the constructor or method invoked ("none" when the menu invoked none).
Call(choice, op, owner, amount, r) ==
    [choice |-> choice, op |-> op, owner |-> owner, amount |-> amount,
     raised |-> r.raised, ret |-> r.ret, out |-> r.out]

Nothing(out) == Return(NoAccount, <<>>, out)

NoCall == Call("", "none", "", 0, Nothing(<<>>))

\* What the assignment accounts[owner] = account replaced: whether the key held
\* an account, and how many Transaction records that account had.
Displaced(old) ==
    [was |-> old # NoAccount,
     records |-> IF old = NoAccount THEN 0 ELSE Len(old.transactions)]

NoneDisplaced == Displaced(NoAccount)

Init ==
    /\ initial = [o \in Owners |-> 0]
    /\ displaced = NoneDisplaced
    /\ accounts = [o \in Owners |-> NoAccount]
    /\ clock = 0
    /\ pc = "menu"
    /\ last = NoCall
    /\ succeeded = [o \in Owners |-> 0]

\* Amounts a caller tries on an account: the fixed ones and the boundary ones.
Boundary(a) ==
    (IF a = NoAccount THEN {} ELSE {a.balance})
        \cup (IF IsChecking(a) THEN {a.balance - a.overdraft_limit} ELSE {})

AmountsFor(a) == Amounts \cup Boundary(a)

MenuAmountsFor(a) == MenuAmounts \cup Boundary(a)

\* The call's effect on the caller's state: the object is shared by reference, so
\* the mutation is visible whether or not the call raised.
Records(accts) ==
    LET RECURSIVE Sum(_)
        Sum(S) == IF S = {} THEN 0
                  ELSE LET o == CHOOSE x \in S : TRUE
                       IN  (IF accts[o] = NoAccount THEN 0 ELSE Len(accts[o].transactions))
                           + Sum(S \ {o})
    IN  Sum(DOMAIN accts)

\* Mutant: every account holds the same transactions list (one list shared by
\* all objects), so a record appended to one shows in all.
Apply_SharedList(choice, op, owner, amount, r) ==
    /\ Records([accounts EXCEPT ![owner] = r.self]) <= MaxHist
    /\ accounts' = [p \in Owners |->
                       IF p = owner THEN r.self
                       ELSE IF accounts[p] = NoAccount THEN NoAccount
                       ELSE [accounts[p] EXCEPT !.transactions = r.self.transactions]]
    /\ succeeded' = [succeeded EXCEPT ![owner] =
                        IF r.raised = NoError /\ op \in {"deposit", "withdraw", "apply_interest"}
                        THEN @ + 1 ELSE @]
    /\ last' = Call(choice, op, owner, amount, r)
    /\ displaced' = NoneDisplaced
    /\ UNCHANGED initial

Apply(choice, op, owner, amount, r) ==
    /\ Records([accounts EXCEPT ![owner] = r.self]) <= MaxHist
    /\ accounts' = [accounts EXCEPT ![owner] = r.self]
    /\ succeeded' = [succeeded EXCEPT ![owner] =
                        IF r.raised = NoError /\ op \in {"deposit", "withdraw", "apply_interest"}
                        THEN @ + 1 ELSE @]
    /\ last' = Call(choice, op, owner, amount, r)
    /\ displaced' = NoneDisplaced
    /\ UNCHANGED initial

Tick ==
    /\ pc = "menu"
    /\ clock' \in {t \in Times : t > clock}
    /\ UNCHANGED <<accounts, pc, last, succeeded, initial, displaced>>

(***************************************************************************)
(* Spec: the classes, called directly                                      *)
(***************************************************************************)
NewSavings(owner, balance, rate) ==
    /\ accounts' = [accounts EXCEPT ![owner] = SavingsAccount_init(owner, balance, rate)]
    /\ succeeded' = [succeeded EXCEPT ![owner] = 0]
    /\ last' = Call("", "SavingsAccount", owner, balance, Nothing(<<>>))
    /\ initial' = [initial EXCEPT ![owner] = balance]
    /\ displaced' = Displaced(accounts[owner])
    /\ UNCHANGED <<clock, pc>>

NewChecking(owner, balance, limit) ==
    /\ accounts' = [accounts EXCEPT ![owner] = CheckingAccount_init(owner, balance, limit)]
    /\ succeeded' = [succeeded EXCEPT ![owner] = 0]
    /\ last' = Call("", "CheckingAccount", owner, balance, Nothing(<<>>))
    /\ initial' = [initial EXCEPT ![owner] = balance]
    /\ displaced' = Displaced(accounts[owner])
    /\ UNCHANGED <<clock, pc>>

Deposit(owner, amount) ==
    /\ accounts[owner] # NoAccount
    /\ Apply("", "deposit", owner, amount, deposit(accounts[owner], amount, clock))
    /\ UNCHANGED <<clock, pc>>

Withdraw(owner, amount) ==
    /\ accounts[owner] # NoAccount
    /\ Apply("", "withdraw", owner, amount, withdraw(accounts[owner], amount, clock))
    /\ UNCHANGED <<clock, pc>>

ApplyInterest(owner) ==
    /\ IsSavings(accounts[owner])
    /\ Apply("", "apply_interest", owner,
             Mul(accounts[owner].balance, accounts[owner].interest_rate),
             SavingsAccount_apply_interest(accounts[owner], clock))
    /\ UNCHANGED <<clock, pc>>

GetBalance(owner) ==
    /\ accounts[owner] # NoAccount
    /\ Apply("", "get_balance", owner, 0, get_balance(accounts[owner]))
    /\ UNCHANGED <<clock, pc>>

GetTransactionHistory(owner) ==
    /\ accounts[owner] # NoAccount
    /\ Apply("", "get_transaction_history", owner, 0, get_transaction_history(accounts[owner]))
    /\ UNCHANGED <<clock, pc>>

Next ==
    \/ Tick
    \/ \E o \in Objects, b \in InitBalances, r \in Rates : NewSavings(o, b, r)
    \/ \E o \in Objects, b \in InitBalances, l \in Limits : NewChecking(o, b, l)
    \/ \E o \in Objects : \E a \in AmountsFor(accounts[o]) : Deposit(o, a)
    \/ \E o \in Objects : \E a \in AmountsFor(accounts[o]) : Withdraw(o, a)
    \/ \E o \in Objects : ApplyInterest(o)
    \/ \E o \in Objects : GetBalance(o)
    \/ \E o \in Objects : GetTransactionHistory(o)

Spec == Init /\ [][Next]_vars

(***************************************************************************)
(* SpecMain: the menu loop of main().  One action per menu option; an      *)
(* exception a handler does not catch ends the process.                    *)
(***************************************************************************)
\* What input() returned, as float() sees it: text float() parses to `value`,
\* or text it rejects with ValueError.
Parsed(value) == [ok |-> TRUE, value |-> value]

Unparsable == [ok |-> FALSE, value |-> 0]

Texts(values) == {Parsed(v) : v \in values} \cup {Unparsable}

\* pc after a handler whose call ended as r: main() has no try/except.
After(r) == IF r.raised = NoError THEN "menu" ELSE "crashed"

Crash(choice, owner) ==
    /\ pc' = "crashed"
    /\ last' = Call(choice, "none", owner, 0, Raise(NoAccount, ErrFloat, <<>>))
    /\ displaced' = NoneDisplaced
    /\ UNCHANGED <<accounts, clock, succeeded, initial>>

Say(choice, owner, text) ==
    /\ last' = Call(choice, "none", owner, 0, Nothing(<<Line(text, <<>>)>>))
    /\ displaced' = NoneDisplaced
    /\ UNCHANGED <<accounts, clock, pc, succeeded, initial>>

\* Mutant: an owner name already in the directory keeps its account.
Option1_KeepsExisting(owner, text) ==
    /\ pc = "menu"
    /\ IF ~text.ok THEN Crash("1", owner)
       ELSE /\ accounts' = [accounts EXCEPT ![owner] =
                               IF @ # NoAccount THEN @
                               ELSE SavingsAccount_init(owner, text.value, DefaultInterestRate)]
            /\ Records(accounts') <= MaxHist
            /\ succeeded' = succeeded
            /\ last' = Call("1", "SavingsAccount", owner, text.value,
                            Nothing(<<Line("Savings account created", <<>>)>>))
            /\ initial' = [initial EXCEPT ![owner] =
                              IF accounts[owner] # NoAccount THEN @ ELSE text.value]
            /\ displaced' = Displaced(accounts[owner])
            /\ UNCHANGED <<clock, pc>>

Option1(owner, text) ==
    /\ pc = "menu"
    /\ IF ~text.ok THEN Crash("1", owner)
       ELSE /\ accounts' = [accounts EXCEPT ![owner] =
                               SavingsAccount_init(owner, text.value, DefaultInterestRate)]
            /\ Records(accounts') <= MaxHist
            /\ succeeded' = [succeeded EXCEPT ![owner] = 0]
            /\ last' = Call("1", "SavingsAccount", owner, text.value,
                            Nothing(<<Line("Savings account created", <<>>)>>))
            /\ initial' = [initial EXCEPT ![owner] = text.value]
            /\ displaced' = Displaced(accounts[owner])
            /\ UNCHANGED <<clock, pc>>

Option2(owner, text) ==
    /\ pc = "menu"
    /\ IF ~text.ok THEN Crash("2", owner)
       ELSE /\ accounts' = [accounts EXCEPT ![owner] =
                               CheckingAccount_init(owner, text.value, DefaultOverdraftLimit)]
            /\ Records(accounts') <= MaxHist
            /\ succeeded' = [succeeded EXCEPT ![owner] = 0]
            /\ last' = Call("2", "CheckingAccount", owner, text.value,
                            Nothing(<<Line("Checking account created", <<>>)>>))
            /\ initial' = [initial EXCEPT ![owner] = text.value]
            /\ displaced' = Displaced(accounts[owner])
            /\ UNCHANGED <<clock, pc>>

Option3(owner, text) ==
    /\ pc = "menu"
    /\ IF accounts[owner] # NoAccount
       THEN IF ~text.ok THEN Crash("3", owner)
            ELSE LET r == deposit(accounts[owner], text.value, clock)
                 IN  /\ Apply("3", "deposit", owner, text.value, r)
                     /\ pc' = After(r)
                     /\ UNCHANGED clock
       ELSE Say("3", owner, "Account not found.")

Option4(owner, text) ==
    /\ pc = "menu"
    /\ IF accounts[owner] # NoAccount
       THEN IF ~text.ok THEN Crash("4", owner)
            ELSE LET r == withdraw(accounts[owner], text.value, clock)
                 IN  /\ Apply("4", "withdraw", owner, text.value, r)
                     /\ pc' = After(r)
                     /\ UNCHANGED clock
       ELSE Say("4", owner, "Account not found.")

\* Mutant: the directory is indexed without the membership test (KeyError).
Option5_NoLookup(owner) ==
    /\ pc = "menu"
    /\ IF accounts[owner] # NoAccount
       THEN LET g == get_balance(accounts[owner])
                r == [g EXCEPT !.out = <<Line("Balance", g.ret)>>]
            IN  /\ Apply("5", "get_balance", owner, 0, r)
                /\ pc' = After(r)
                /\ UNCHANGED clock
       ELSE /\ pc' = "crashed"
            /\ last' = Call("5", "none", owner, 0, Raise(NoAccount, "KeyError", <<>>))
            /\ displaced' = NoneDisplaced
            /\ UNCHANGED <<accounts, clock, succeeded, initial>>

Option5(owner) ==
    /\ pc = "menu"
    /\ IF accounts[owner] # NoAccount
       THEN LET g == get_balance(accounts[owner])
                r == [g EXCEPT !.out = <<Line("Balance", g.ret)>>]
            IN  /\ Apply("5", "get_balance", owner, 0, r)
                /\ pc' = After(r)
                /\ UNCHANGED clock
       ELSE Say("5", owner, "Account not found.")

Option6(owner) ==
    /\ pc = "menu"
    /\ IF accounts[owner] # NoAccount
       THEN LET r == get_transaction_history(accounts[owner])
            IN  /\ Apply("6", "get_transaction_history", owner, 0, r)
                /\ pc' = After(r)
                /\ UNCHANGED clock
       ELSE Say("6", owner, "Account not found.")

\* Mutant: the isinstance test is missing (AttributeError on a CheckingAccount).
Option7_NoIsinstance(owner) ==
    /\ pc = "menu"
    /\ IF accounts[owner] # NoAccount
       THEN IF IsSavings(accounts[owner])
            THEN LET r == SavingsAccount_apply_interest(accounts[owner], clock)
                 IN  /\ Apply("7", "apply_interest", owner,
                              Mul(accounts[owner].balance, accounts[owner].interest_rate), r)
                     /\ pc' = After(r)
                     /\ UNCHANGED clock
            ELSE /\ pc' = "crashed"
                 /\ last' = Call("7", "apply_interest", owner, 0,
                                 Raise(NoAccount, "AttributeError", <<>>))
                 /\ displaced' = NoneDisplaced
                 /\ UNCHANGED <<accounts, clock, succeeded, initial>>
       ELSE Say("7", owner, "Savings account not found.")

Option7(owner) ==
    /\ pc = "menu"
    /\ IF accounts[owner] # NoAccount /\ IsSavings(accounts[owner])
       THEN LET r == SavingsAccount_apply_interest(accounts[owner], clock)
            IN  /\ Apply("7", "apply_interest", owner,
                         Mul(accounts[owner].balance, accounts[owner].interest_rate), r)
                /\ pc' = After(r)
                /\ UNCHANGED clock
       ELSE Say("7", owner, "Savings account not found.")

Option8 ==
    /\ pc = "menu"
    /\ pc' = "exited"
    /\ last' = Call("8", "none", "", 0, Nothing(<<Line("Exiting", <<>>)>>))
    /\ displaced' = NoneDisplaced
    /\ UNCHANGED <<accounts, clock, succeeded, initial>>

OptionInvalid ==
    /\ pc = "menu"
    /\ Say("9", "", "Invalid option. Please try again.")

NextMain ==
    \/ Tick
    \/ \E o \in Owners : \E t \in Texts(MenuBalances) : Option1(o, t)
    \/ \E o \in Owners : \E t \in Texts(MenuBalances) : Option2(o, t)
    \/ \E o \in Owners : \E t \in Texts(MenuAmountsFor(accounts[o])) : Option3(o, t)
    \/ \E o \in Owners : \E t \in Texts(MenuAmountsFor(accounts[o])) : Option4(o, t)
    \/ \E o \in Owners : Option5(o)
    \/ \E o \in Owners : Option6(o)
    \/ \E o \in Owners : Option7(o)
    \/ Option8
    \/ OptionInvalid

SpecMain == Init /\ [][NextMain]_vars

(***************************************************************************)
(* Properties                                                              *)
(***************************************************************************)
Exists(o) == accounts[o] # NoAccount

\* The step appended exactly one record, of the given amount and type, to the
\* end of owner o's history and left the earlier records as they were.
AppendedOne(o, amount, type) ==
    LET old == accounts[o].transactions
        new == accounts'[o].transactions
    IN  /\ Len(new) = Len(old) + 1
        /\ SubSeq(new, 1, Len(old)) = old
        /\ new[Len(new)].amount = amount
        /\ new[Len(new)].transaction_type = type

\* The step left every account, and the count of successful calls, as it was.
NothingChanged == accounts' = accounts /\ succeeded' = succeeded

\* C1: in every reachable state every SavingsAccount has balance >= 0,
\* whatever initial balance and interest rate it was constructed with.
C1_SavingsNeverNegative ==
    \A o \in Owners : IsSavings(accounts[o]) => accounts[o].balance >= 0

\* C2: in every reachable state every CheckingAccount has
\* balance >= overdraft_limit, whatever it was constructed with.
C2_CheckingNeverBelowLimit ==
    \A o \in Owners :
        IsChecking(accounts[o]) => accounts[o].balance >= accounts[o].overdraft_limit

\* C3: on an account of either kind, in any state, deposit(a) and withdraw(a)
\* with a <= 0 raise the InvalidAmount error (never InsufficientFunds or
\* OverdraftExceeded) and leave balance and history unchanged.
C3_NonPositiveAmountRejected ==
    [][\A o \in Objects : \A a \in AmountsFor(accounts[o]) :
          (a <= 0 /\ (Deposit(o, a) \/ Withdraw(o, a)))
              => (last'.raised \in InvalidAmount /\ NothingChanged)]_vars

C3_Witness ==
    /\ last.op = "withdraw"
    /\ last.amount < 0
    /\ last.raised = ErrWithdrawalAmount
    /\ Exists(last.owner)
    /\ last.amount > accounts[last.owner].balance

\* C4 as stated: on a SavingsAccount withdraw(a) raises InsufficientFunds
\* iff a > balance, and withdraw(balance) succeeds leaving balance 0.
C4_Original ==
    [][\A o \in Objects : \A a \in AmountsFor(accounts[o]) :
          (IsSavings(accounts[o]) /\ Withdraw(o, a))
              => /\ (last'.raised \in InsufficientFunds) <=> (a > accounts[o].balance)
                 /\ (a = accounts[o].balance)
                        => (last'.raised = NoError /\ accounts'[o].balance = 0)]_vars

\* C4 (amended): on a SavingsAccount withdraw(a) raises InsufficientFunds iff
\* a > 0 and a > balance; when balance > 0, withdraw(balance) succeeds and
\* leaves balance exactly 0.
C4_SavingsFloor ==
    [][\A o \in Objects : \A a \in AmountsFor(accounts[o]) :
          (IsSavings(accounts[o]) /\ Withdraw(o, a))
              => /\ (last'.raised \in InsufficientFunds)
                        <=> (a > 0 /\ a > accounts[o].balance)
                 /\ (a = accounts[o].balance /\ a > 0)
                        => (last'.raised = NoError /\ accounts'[o].balance = 0)]_vars

C4_Witness ==
    /\ last.op = "withdraw"
    /\ last.raised = NoError
    /\ last.amount > 0
    /\ IsSavings(accounts[last.owner])
    /\ accounts[last.owner].balance = 0

\* C5 as stated: on a CheckingAccount withdraw(a) raises OverdraftExceeded iff
\* balance - a < overdraft_limit, and a withdrawal with
\* balance - a = overdraft_limit succeeds.
C5_Original ==
    [][\A o \in Objects : \A a \in AmountsFor(accounts[o]) :
          (IsChecking(accounts[o]) /\ Withdraw(o, a))
              => LET floor == accounts[o].overdraft_limit
                     after == accounts[o].balance - a
                 IN  /\ (last'.raised \in OverdraftExceeded) <=> (after < floor)
                     /\ (after = floor)
                            => (last'.raised = NoError /\ accounts'[o].balance = floor)]_vars

\* C5 (amended): on a CheckingAccount withdraw(a) raises OverdraftExceeded iff
\* a > 0 and balance - a < overdraft_limit; a withdrawal of a > 0 with
\* balance - a = overdraft_limit succeeds and leaves balance = overdraft_limit.
C5_CheckingFloor ==
    [][\A o \in Objects : \A a \in AmountsFor(accounts[o]) :
          (IsChecking(accounts[o]) /\ Withdraw(o, a))
              => LET floor == accounts[o].overdraft_limit
                     after == accounts[o].balance - a
                 IN  /\ (last'.raised \in OverdraftExceeded) <=> (a > 0 /\ after < floor)
                     /\ (after = floor /\ a > 0)
                            => (last'.raised = NoError /\ accounts'[o].balance = floor)]_vars

\* balance 0, limit -500: withdraw(400) succeeded, then withdraw(200) was refused.
C5_Witness ==
    /\ last.op = "withdraw"
    /\ last.amount = 200
    /\ last.raised = ErrOverdraft
    /\ IsChecking(accounts[last.owner])
    /\ accounts[last.owner].overdraft_limit = DefaultOverdraftLimit
    /\ accounts[last.owner].balance = -400
    /\ Len(accounts[last.owner].transactions) = 1
    /\ accounts[last.owner].transactions[1].amount = 400

\* C6: a deposit(a) that returns increases balance by exactly a and appends
\* exactly one record, of amount a and type Deposit, to the end of the
\* history; every deposit with a > 0 returns.
C6_DepositEffect ==
    [][\A o \in Objects : \A a \in AmountsFor(accounts[o]) :
          Deposit(o, a)
              => /\ a > 0 => last'.raised = NoError
                 /\ last'.raised = NoError
                        => /\ accounts'[o].balance = accounts[o].balance + a
                           /\ AppendedOne(o, a, "Deposit")]_vars

C6_Witness ==
    /\ last.op = "deposit"
    /\ last.raised = NoError
    /\ IsChecking(accounts[last.owner])
    /\ Len(accounts[last.owner].transactions) = 2
    /\ accounts[last.owner].transactions[2].amount = last.amount
    /\ accounts[last.owner].transactions[2].transaction_type = "Deposit"

\* C7: a withdraw(a) that returns decreases balance by exactly a and appends
\* exactly one record, of amount a and type Withdrawal, to the end of the
\* history.
C7_WithdrawEffect ==
    [][\A o \in Objects : \A a \in AmountsFor(accounts[o]) :
          (Withdraw(o, a) /\ last'.raised = NoError)
              => /\ accounts'[o].balance = accounts[o].balance - a
                 /\ AppendedOne(o, a, "Withdrawal")]_vars

C7_Witness ==
    /\ last.op = "withdraw"
    /\ last.raised = NoError
    /\ IsSavings(accounts[last.owner])
    /\ Len(accounts[last.owner].transactions) = 2
    /\ accounts[last.owner].transactions[2].amount = last.amount
    /\ accounts[last.owner].transactions[2].transaction_type = "Withdrawal"
    /\ accounts[last.owner].balance > 0

\* C8: apply_interest on a SavingsAccount with balance B and rate R, B*R being
\* the product the code computes: when B*R > 0 it increases balance by exactly
\* B*R and appends exactly one Deposit record of amount B*R; when B*R <= 0 it
\* raises InvalidAmount and leaves balance and history unchanged.
C8_ApplyInterest ==
    [][\A o \in Objects :
          ApplyInterest(o)
              => LET BR == Mul(accounts[o].balance, accounts[o].interest_rate)
                 IN  IF BR > 0
                     THEN /\ last'.raised = NoError
                          /\ accounts'[o].balance = accounts[o].balance + BR
                          /\ AppendedOne(o, BR, "Deposit")
                     ELSE /\ last'.raised \in InvalidAmount
                          /\ NothingChanged]_vars

C8_Witness ==
    /\ last.op = "apply_interest"
    /\ last.raised = NoError
    /\ last.amount > 0
    /\ accounts[last.owner].interest_rate = DefaultInterestRate
    /\ accounts[last.owner].transactions[Len(accounts[last.owner].transactions)].amount
           = last.amount

\* C9: the history length of an account equals the number of deposit,
\* withdraw and apply_interest calls on it that returned; a call that raised
\* appended nothing and left balance, history and every other field unchanged.
C9_FailedCallsChangeNothing ==
    /\ [](\A o \in Owners : Exists(o) => Len(accounts[o].transactions) = succeeded[o])
    /\ [][last'.raised # NoError => NothingChanged]_vars

C9_Witness ==
    /\ last.raised \in InsufficientFunds
    /\ succeeded[last.owner] = 2
    /\ Len(accounts[last.owner].transactions) = 2

\* C10: after an operation requested through the menu fails with
\* InvalidAmount, InsufficientFunds or OverdraftExceeded (a rejected
\* zero-interest accrual included), the process is still at the menu and the
\* account is still in the directory.
C10_FailureNotFatal ==
    (last.raised \in InvalidAmount \cup InsufficientFunds \cup OverdraftExceeded)
        => (pc = "menu" /\ Exists(last.owner))

IsPrefix(old, new) ==
    Len(old) <= Len(new) /\ SubSeq(new, 1, Len(old)) = old

\* The step is a constructor call that bound a new account object to owner o.
Constructed(o) ==
    last'.op \in {"SavingsAccount", "CheckingAccount"} /\ last'.owner = o

\* C11: the history of an account is append-only and insertion-ordered: across
\* any operation on the account the old history is a prefix of the new one (no
\* record is removed, reordered, merged or changed), it grows by at most one
\* record, and it grows exactly when a mutating call returned, by the record of
\* that call.
C11_HistoryAppendOnly ==
    [][\A o \in Owners :
          (Exists(o) /\ ~Constructed(o))
              => LET old == accounts[o].transactions
                     new == accounts'[o].transactions
                 IN  /\ IsPrefix(old, new)
                     /\ Len(new) <= Len(old) + 1
                     /\ Len(new) = Len(old) + 1
                            => /\ succeeded'[o] = succeeded[o] + 1
                               /\ last'.owner = o
                               /\ last'.raised = NoError
                               /\ new[Len(new)].amount = last'.amount]_vars

\* Two equal records, one after the other, followed the first one: nothing merged.
C11_Witness ==
    /\ last.owner \in Owners
    /\ Exists(last.owner)
    /\ Len(accounts[last.owner].transactions) = 2
    /\ accounts[last.owner].transactions[1] = accounts[last.owner].transactions[2]
    /\ succeeded[last.owner] = 2

\* C12: in every reachable state every record of every account's history has
\* an amount > 0 and a type that is Deposit or Withdrawal.
C12_RecordsPositive ==
    \A o \in Owners :
        Exists(o) =>
            \A i \in 1..Len(accounts[o].transactions) :
                /\ accounts[o].transactions[i].amount > 0
                /\ accounts[o].transactions[i].transaction_type \in {"Deposit", "Withdrawal"}

\* An interest accrual recorded as a Deposit, after a Withdrawal.
C12_Witness ==
    /\ last.op = "apply_interest"
    /\ last.raised = NoError
    /\ Len(accounts[last.owner].transactions) = 2
    /\ accounts[last.owner].transactions[1].transaction_type = "Withdrawal"
    /\ accounts[last.owner].transactions[2].transaction_type = "Deposit"
    /\ accounts[last.owner].transactions[2].amount = last.amount

\* C13: get_balance and get_transaction_history never raise and leave the
\* account (balance, history and every other field) unchanged, in any state,
\* the empty history included; get_balance returns the current balance.
C13_ReadsHaveNoEffect ==
    [][\A o \in Objects :
          /\ GetBalance(o)
                => /\ last'.raised = NoError
                   /\ last'.ret = <<accounts[o].balance>>
                   /\ NothingChanged
          /\ GetTransactionHistory(o)
                => /\ last'.raised = NoError
                   /\ NothingChanged]_vars

C13_Witness ==
    /\ last.op = "get_transaction_history"
    /\ last.raised = NoError
    /\ Len(accounts[last.owner].transactions) = 2
    /\ Len(last.out) = 2

\* The step printed exactly this line and called no method of any account.
OnlySaid(text) ==
    /\ last'.op = "none"
    /\ last'.raised = NoError
    /\ last'.out = <<Line(text, <<>>)>>

\* C14: option 7 for an owner whose account is a CheckingAccount is refused by
\* the menu itself ("Savings account not found."): apply_interest is not
\* invoked, that account and every other account are unchanged, and the menu
\* goes on.
C14_InterestOnCheckingRefused ==
    [][\A o \in Owners :
          (IsChecking(accounts[o]) /\ Option7(o))
              => /\ OnlySaid("Savings account not found.")
                 /\ NothingChanged
                 /\ pc' = "menu"]_vars

C14_Witness ==
    /\ last.choice = "7"
    /\ last.op = "none"
    /\ last.owner \in Owners
    /\ IsChecking(accounts[last.owner])
    /\ Len(accounts[last.owner].transactions) = 1
    /\ pc = "menu"

\* C15: options 3 to 7 for an owner name that has no account report that the
\* account was not found, create no account, and leave the directory and every
\* account in it unchanged.
C15_UnknownOwner ==
    [][\A o \in Owners :
          ~Exists(o)
              => /\ ((\E t \in Texts(MenuAmountsFor(accounts[o])) : Option3(o, t))
                      \/ (\E t \in Texts(MenuAmountsFor(accounts[o])) : Option4(o, t))
                      \/ Option5(o) \/ Option6(o))
                        => /\ OnlySaid("Account not found.")
                           /\ NothingChanged
                           /\ pc' = "menu"
                 /\ Option7(o)
                        => /\ OnlySaid("Savings account not found.")
                           /\ NothingChanged
                           /\ pc' = "menu"]_vars

C15_Witness ==
    /\ last.choice = "4"
    /\ last.owner \in Owners
    /\ ~Exists(last.owner)
    /\ last.out = <<Line("Account not found.", <<>>)>>
    /\ \E p \in Owners : Exists(p) /\ Len(accounts[p].transactions) = 1
    /\ pc = "menu"

\* Sum of the amounts of the records of the given type in a history.
RECURSIVE Total(_, _)
Total(history, type) ==
    IF history = <<>> THEN 0
    ELSE (IF Head(history).transaction_type = type THEN Head(history).amount ELSE 0)
         + Total(Tail(history), type)

\* C16: in every reachable state the balance of an account equals the initial
\* balance it was constructed with, plus the amounts of the Deposit records of
\* its history, minus the amounts of its Withdrawal records.
C16_Conservation ==
    \A o \in Owners :
        Exists(o) =>
            accounts[o].balance
                = initial[o] + Total(accounts[o].transactions, "Deposit")
                             - Total(accounts[o].transactions, "Withdrawal")

C16_Witness ==
    /\ last.op = "apply_interest"
    /\ last.raised = NoError
    /\ initial[last.owner] = 100
    /\ Total(accounts[last.owner].transactions, "Withdrawal") = 50
    /\ Total(accounts[last.owner].transactions, "Deposit") = 25
    /\ accounts[last.owner].balance = 75

\* C17: option 1 or 2 for an owner name that already has an account replaces
\* that account in the directory: the entry is a new account of the kind asked
\* for, with the initial balance typed, an empty history and the default
\* policy; nothing of the old account is kept, and other owners' accounts are
\* untouched.
C17_CreateOverwrites ==
    [][\A o \in Owners : \A b \in MenuBalances :
          Exists(o)
              => /\ Option1(o, Parsed(b))
                        => /\ accounts'[o] = SavingsAccount_init(o, b, DefaultInterestRate)
                           /\ accounts'[o].transactions = <<>>
                           /\ accounts'[o].balance = b
                           /\ \A p \in Owners \ {o} : accounts'[p] = accounts[p]
                 /\ Option2(o, Parsed(b))
                        => /\ accounts'[o] = CheckingAccount_init(o, b, DefaultOverdraftLimit)
                           /\ accounts'[o].transactions = <<>>
                           /\ accounts'[o].balance = b
                           /\ \A p \in Owners \ {o} : accounts'[p] = accounts[p]]_vars

\* An account with two records was replaced by a fresh one.
C17_Witness ==
    /\ last.choice \in {"1", "2"}
    /\ last.raised = NoError
    /\ displaced.was
    /\ displaced.records = 2
    /\ accounts[last.owner].transactions = <<>>
    /\ accounts[last.owner].balance = last.amount

\* C18: a deposit, withdraw or apply_interest requested for one owner, whether
\* it returns or raises, leaves the account (balance, history, every field) of
\* every other owner unchanged.
C18_Isolation ==
    [][\A o \in Owners :
          (last'.choice \in {"3", "4", "7"} /\ last'.owner = o)
              => \A p \in Owners \ {o} :
                    /\ accounts'[p] = accounts[p]
                    /\ succeeded'[p] = succeeded[p]]_vars

C18_Witness ==
    /\ last.choice = "4"
    /\ last.op = "withdraw"
    /\ last.raised = NoError
    /\ Len(accounts[last.owner].transactions) = 1
    /\ accounts[last.owner].transactions[1].transaction_type = "Withdrawal"
    /\ \E p \in Owners \ {last.owner} :
          /\ Exists(p)
          /\ Len(accounts[p].transactions) = 1
          /\ accounts[p].transactions[1].transaction_type = "Deposit"

\* The fields of an account that are its identity and policy.
Policy(a) ==
    [owner |-> a.owner, kind |-> a.kind,
     param |-> IF IsSavings(a) THEN a.interest_rate ELSE a.overdraft_limit]

\* C19: no deposit, withdraw, apply_interest, get_balance or
\* get_transaction_history call changes an account's owner, kind,
\* interest_rate or overdraft_limit; an account created through the menu has
\* its owner name as owner and the default 0.02 or -500 in every state.
C19_PolicyFrozen ==
    /\ [](\A o \in Owners :
             Exists(o) =>
                 Policy(accounts[o])
                     = [owner |-> o, kind |-> accounts[o].kind,
                        param |-> IF IsSavings(accounts[o]) THEN DefaultInterestRate
                                  ELSE DefaultOverdraftLimit])
    /\ [][\A o \in Owners :
            (Exists(o) /\ ~Constructed(o))
                => (Exists(o)' /\ Policy(accounts'[o]) = Policy(accounts[o]))]_vars

C19_Witness ==
    /\ last.choice = "4"
    /\ last.op = "withdraw"
    /\ last.raised = NoError
    /\ IsChecking(accounts[last.owner])
    /\ accounts[last.owner].balance = DefaultOverdraftLimit
    /\ accounts[last.owner].overdraft_limit = DefaultOverdraftLimit
    /\ \E p \in Owners :
          /\ IsSavings(accounts[p])
          /\ accounts[p].interest_rate = DefaultInterestRate
          /\ Len(accounts[p].transactions) = 1

====
